---- MODULE Spec2Model ----
(***************************************************************************)
(* Two-round cell-type prediction (Pyramid/predict.py, Cellcano/utils).    *)
(*                                                                         *)
(* predict(args) is one synchronous handler.  It is modelled block by      *)
(* block, each block as the statements of the source with the Python       *)
(* semantics of every statement, the raising ones included: a statement    *)
(* that raises (NameError, TypeError, KeyError, sys.exit) ends the run in  *)
(* pc = "error" with err naming what was raised.  Every specification      *)
(* below starts at the first line of one block, with the inputs of that    *)
(* block drawn from bounded sets:                                          *)
(*   SpecEncoder    lines 19-32  file check, encoder mapping, label lookup *)
(*   SpecAlign      lines 43-60  feature alignment loop, coverage report   *)
(*   SpecProject    line  62-63  re-projection onto the alignment index    *)
(*   SpecPartition  _utils.py 268-291  _select_confident_cells             *)
(*   SpecRound      lines 68-90  first round, tiers, second-round set-up   *)
(*   SpecDistill    lines 94-109 teacher, student, distiller, output       *)
(* Indices are Python's: 0-based, a negative index counts from the end.    *)
(***************************************************************************)
EXTENDS Integers, Sequences, FiniteSets, TLC

VARIABLES
    pc,                 \* position in predict()
    err,                \* what was raised ("none" while running)
    log,                \* the last logger call of the coverage report
    \* ---- feature alignment
    features,           \* reference feature list (features.txt)
    var_names,          \* test_adata.var_names
    feature_idx,        \* the alignment index under construction
    find_cnt,           \* matched reference features
    f_idx,              \* outer loop position
    proj_src,           \* per column of test_adata[:, feature_idx]: the target column it holds
    \* ---- encoder mapping
    files_exist,        \* features.txt and onehot_encoder.txt both exist
    encoder_file,       \* lines of onehot_encoder.txt as <<index, label>>
    line_no,            \* lines of encoder_file read
    encoders,           \* the dict built from encoder_file
    enc_keys,           \* keys of encoders in insertion order
    derived,            \* <<model output index, label>> pairs looked up so far
    onehot_idx,         \* <<label, one-hot column>> pairs computed so far
    \* ---- cell records (test_adata.obs)
    n_obs,              \* number of cells; obs_names are 1..n_obs
    y_pred,             \* per cell, the softmax row: its argmax and its entropy
    obs_firstround,     \* column firstround_pred_celltype
    obs_entropy,        \* column entropy
    obs_status,         \* column entropy_status ("nan" until assigned)
    obs_pred,           \* column pred_celltype ("nan" until assigned)
    predict_type,       \* args.predict_type
    \* ---- _select_confident_cells
    todo,               \* cell types still to be visited by the for loop
    sel_low,            \* the function's list low_entropy_cells
    rng,                \* state of the process-wide generator of module random
    calls,              \* calls of _select_confident_cells made in this process
    prev_status,        \* entropy_status as the previous call left it
    \* ---- second round
    low_entropy_cells,  \* predict()'s list of low-tier cells
    high_entropy_cells, \* predict()'s list of high-tier cells
    distill_state,      \* Idle, TeacherTrained, StudentInitialized, Distilled, Scored
    teacher_fit,        \* cells the teacher was fitted on
    student_fit,        \* cells the distiller trained the student on
    scored,             \* per cell the student was applied to, its top-class label
    output              \* rows written to celltypes.csv (<<>> until written)

alignVars == <<features, var_names, feature_idx, find_cnt, f_idx, proj_src>>
encVars == <<files_exist, encoder_file, line_no, encoders, enc_keys, derived, onehot_idx>>
obsVars == <<n_obs, y_pred, obs_firstround, obs_entropy, obs_status, obs_pred, predict_type>>
selVars == <<todo, sel_low, rng, calls, prev_status>>
roundVars == <<low_entropy_cells, high_entropy_cells, distill_state, teacher_fit,
               student_fit, scored, output>>
vars == <<pc, err, log, alignVars, encVars, obsVars, selVars, roundVars>>

(***************************************************************************)
(* Bounds of the model.                                                    *)
(***************************************************************************)
MaxFeatures == 3
MaxGenes == 3
MaxLines == 3
MaxCells == 4
MaxEntropy == 2
MaxCalls == 2
RngMod == 7

(***************************************************************************)
(* Program constants.                                                      *)
(***************************************************************************)
NotFound == -1
RANDOM_SEED == 1993
\* ENTROPY_QUANTILE = 0.4 = QNum / QDen
QNum == 2
QDen == 5
\* 0.7 = CovNum / CovDen
CovNum == 7
CovDen == 10

Genes == {"A", "B", "C", "D"}
ClassLabels == {"T-cell", "B-cell"}

Range(s) == {s[i] : i \in DOMAIN s}
SeqsUpTo(S, lo, hi) == UNION {[1..n -> S] : n \in lo..hi}
IsUnique(s) == \A i, j \in DOMAIN s : s[i] = s[j] => i = j
EmptyMap == [k \in {} |-> "nan"]

(***************************************************************************)
(* Feature Aligner: predict.py lines 43-55.                                *)
(***************************************************************************)
\* The reference lists of features.txt: the training side writes the
\* var_names of the training data, which are deduplicated.
FeatureLists == {s \in SeqsUpTo(Genes, 1, MaxFeatures) : IsUnique(s)}
TargetLists == SeqsUpTo(Genes, 1, MaxGenes)

\* The inner loop from position test_idx on (0-based): the entries one
\* outer iteration appends to feature_idx.
RECURSIVE ScanFrom(_, _, _)
ScanFrom(feature, names, test_idx) ==
    IF test_idx >= Len(names) THEN <<NotFound>>
    ELSE IF names[test_idx + 1] = feature THEN <<test_idx>>
    ELSE ScanFrom(feature, names, test_idx + 1)

\* The inner loop without its break: every match is appended.
RECURSIVE ScanAllFrom(_, _, _, _)
ScanAllFrom(feature, names, test_idx, found) ==
    IF test_idx >= Len(names)
    THEN (IF found THEN <<>> ELSE <<NotFound>>)
    ELSE IF names[test_idx + 1] = feature
    THEN <<test_idx>> \o ScanAllFrom(feature, names, test_idx + 1, TRUE)
    ELSE ScanAllFrom(feature, names, test_idx + 1, found)

FeatureEntriesNoBreak(feature, names) == ScanAllFrom(feature, names, 0, FALSE)

FeatureEntries(feature, names) == ScanFrom(feature, names, 0)

Matches(entries) == Cardinality({i \in DOMAIN entries : entries[i] # NotFound})

\* The whole loop.
RECURSIVE AlignIndex(_, _)
AlignIndex(feats, names) ==
    IF feats = <<>> THEN <<>>
    ELSE FeatureEntries(Head(feats), names) \o AlignIndex(Tail(feats), names)

\* numpy's column selection by an integer: a negative index counts from the end.
PyColumn(i, m) == IF i >= 0 THEN i ELSE m + i

AlignDefault ==
    /\ features = <<>> /\ var_names = <<>> /\ feature_idx = <<>>
    /\ find_cnt = 0 /\ f_idx = 0 /\ proj_src = <<>>

EncDefault ==
    /\ files_exist = TRUE /\ encoder_file = <<>> /\ line_no = 0
    /\ encoders = EmptyMap /\ enc_keys = <<>> /\ derived = {} /\ onehot_idx = {}

ObsDefault ==
    /\ n_obs = 0 /\ y_pred = <<>> /\ obs_firstround = <<>> /\ obs_entropy = <<>>
    /\ obs_status = <<>> /\ obs_pred = <<>> /\ predict_type = "tworound_predict"

SelDefault ==
    /\ todo = {} /\ sel_low = <<>> /\ rng = 0 /\ calls = 0 /\ prev_status = <<>>

RoundDefault ==
    /\ low_entropy_cells = <<>> /\ high_entropy_cells = <<>>
    /\ distill_state = "Idle" /\ teacher_fit = {} /\ student_fit = {}
    /\ scored = EmptyMap /\ output = <<>>

\* ---- SpecAlign -----------------------------------------------------------
InitAlign ==
    /\ pc = "align"
    /\ err = "none" /\ log = "none"
    /\ features \in FeatureLists
    /\ var_names \in TargetLists
    /\ feature_idx = <<>> /\ find_cnt = 0 /\ f_idx = 0 /\ proj_src = <<>>
    /\ EncDefault /\ ObsDefault /\ SelDefault /\ RoundDefault

\* One iteration of the outer loop, lines 46-55.
AlignFeature ==
    /\ pc = "align"
    /\ f_idx < Len(features)
    /\ LET entries == FeatureEntries(features[f_idx + 1], var_names) IN
        /\ feature_idx' = feature_idx \o entries
        /\ find_cnt' = find_cnt + Matches(entries)
    /\ f_idx' = f_idx + 1
    /\ pc' = IF f_idx + 1 = Len(features) THEN "coverage" ELSE "align"
    /\ UNCHANGED <<err, log, features, var_names, proj_src>>
    /\ UNCHANGED <<encVars, obsVars, selVars, roundVars>>

\* Lines 57-60.  len(find_cnt) is len() of an int: TypeError, raised before
\* the comparison and before either logger call.
CoverageCheck ==
    /\ pc = "coverage"
    /\ pc' = "error"
    /\ err' = "TypeError"
    /\ UNCHANGED <<log, alignVars, encVars, obsVars, selVars, roundVars>>

NextAlign == AlignFeature \/ CoverageCheck

SpecAlign == InitAlign /\ [][NextAlign]_vars

\* ---- SpecProject ---------------------------------------------------------
InitProject ==
    /\ pc = "project"
    /\ err = "none" /\ log = "none"
    /\ features \in FeatureLists
    /\ var_names \in TargetLists
    /\ feature_idx = AlignIndex(features, var_names)
    /\ find_cnt = Matches(feature_idx)
    /\ f_idx = Len(features) /\ proj_src = <<>>
    /\ EncDefault /\ ObsDefault /\ SelDefault /\ RoundDefault

\* Line 62, test_adata[:, feature_idx]: column i of the result is the target
\* column that Python's indexing gives for feature_idx[i].
Reproject ==
    /\ pc = "project"
    /\ proj_src' = [i \in DOMAIN feature_idx |-> PyColumn(feature_idx[i], Len(var_names))]
    /\ pc' = "scale"
    /\ UNCHANGED <<err, log, features, var_names, feature_idx, find_cnt, f_idx>>
    /\ UNCHANGED <<encVars, obsVars, selVars, roundVars>>

NextProject == Reproject

SpecProject == InitProject /\ [][NextProject]_vars

(***************************************************************************)
(* Encoder mapping: predict.py lines 19-32, _utils.py lines 216-242.       *)
(***************************************************************************)
EncoderFiles == SeqsUpTo((0..(MaxLines - 1)) \X ClassLabels, 1, MaxLines)

\* encoders[int(line_info[0])] = line_info[1]: a repeated key is overwritten.
DictSet(d, k, v) == (k :> v) @@ d

\* {v: k for k, v in encoders.items()}: items come in insertion order and a
\* repeated label keeps the key met last.
InvEnc(enc, keys) ==
    [l \in Range(enc) |->
        keys[CHOOSE i \in DOMAIN keys :
                /\ enc[keys[i]] = l
                /\ \A j \in DOMAIN keys : enc[keys[j]] = l => j <= i]]

\* ---- SpecEncoder ---------------------------------------------------------
InitEncoder ==
    /\ pc = "check_files"
    /\ err = "none" /\ log = "none"
    /\ files_exist \in BOOLEAN
    /\ encoder_file \in EncoderFiles
    /\ line_no = 0 /\ encoders = EmptyMap /\ enc_keys = <<>>
    /\ derived = {} /\ onehot_idx = {}
    /\ AlignDefault /\ ObsDefault /\ SelDefault /\ RoundDefault

\* Lines 21-22: the only check made on the two files.
CheckFiles ==
    /\ pc = "check_files"
    /\ IF files_exist
       THEN pc' = "read_encoder" /\ err' = err
       ELSE pc' = "error" /\ err' = "SystemExit"
    /\ UNCHANGED <<log, alignVars, encVars, obsVars, selVars, roundVars>>

\* Lines 30-32, one line of the file.
ReadEncoderLine ==
    /\ pc = "read_encoder"
    /\ line_no < Len(encoder_file)
    /\ LET line_info == encoder_file[line_no + 1] IN
        /\ encoders' = DictSet(encoders, line_info[1], line_info[2])
        /\ enc_keys' = IF line_info[1] \in DOMAIN encoders
                       THEN enc_keys
                       ELSE Append(enc_keys, line_info[1])
    /\ line_no' = line_no + 1
    /\ pc' = IF line_no + 1 = Len(encoder_file) THEN "loaded" ELSE "read_encoder"
    /\ UNCHANGED <<err, log, files_exist, encoder_file, derived, onehot_idx>>
    /\ UNCHANGED <<alignVars, obsVars, selVars, roundVars>>

\* _prob_to_label, lines 226-227, for one row whose argmax is label:
\* encoders[label], a KeyError when the index is not a key.
ProbToLabel ==
    /\ pc = "loaded"
    /\ \E label \in 0..(MaxLines - 1) :
        IF label \in DOMAIN encoders
        THEN /\ derived' = derived \cup {<<label, encoders[label]>>}
             /\ pc' = pc /\ err' = err
        ELSE /\ derived' = derived
             /\ pc' = "error" /\ err' = "KeyError"
    /\ UNCHANGED <<log, files_exist, encoder_file, line_no, encoders, enc_keys, onehot_idx>>
    /\ UNCHANGED <<alignVars, obsVars, selVars, roundVars>>

\* _label_to_onehot, lines 238-240, for one label already looked up:
\* the one-hot column is inv_enc[l].
LabelToOnehot ==
    /\ pc = "loaded"
    /\ \E d \in derived :
        onehot_idx' = onehot_idx \cup {<<d[2], InvEnc(encoders, enc_keys)[d[2]]>>}
    /\ UNCHANGED <<pc, err, log, files_exist, encoder_file, line_no, encoders, enc_keys, derived>>
    /\ UNCHANGED <<alignVars, obsVars, selVars, roundVars>>

NextEncoder == CheckFiles \/ ReadEncoderLine \/ ProbToLabel \/ LabelToOnehot

SpecEncoder == InitEncoder /\ [][NextEncoder]_vars

(***************************************************************************)
(* Entropy Partitioner: _utils.py lines 268-291.                           *)
(***************************************************************************)
Cells == 1..n_obs

\* random.seed(a): the state the generator is put in.
RngSeed(a) == a % RngMod
\* One step of the generator.  The Mersenne Twister of the standard library
\* is abstracted by a small congruential generator: what matters to the
\* program is that a draw is a function of the state and moves it on.
RngNext(s) == (5 * s + 3) % RngMod

\* random.sample(pool, k) from generator state s, as CPython draws it for a
\* short list: k times, pick j below the remaining length, take pool[j] and
\* move the last remaining element into its place.
RECURSIVE Sample(_, _, _)
Sample(pool, k, s) ==
    IF k = 0 THEN [sel |-> <<>>, rng |-> s]
    ELSE LET s1 == RngNext(s)
             n == Len(pool)
             j == (s1 % n) + 1
             rest == Sample(SubSeq([pool EXCEPT ![j] = pool[n]], 1, n - 1), k - 1, s1)
         IN [sel |-> <<pool[j]>> \o rest.sel, rng |-> rest.rng]

\* Line 283 left out: the generator continues from the state it is in.
SeedSkipped(s) == s

\* Line 283, random.seed(RANDOM_SEED), applied to generator state s.
SeedBeforeSample(s) == RngSeed(RANDOM_SEED)

RECURSIVE Insert(_, _)
Insert(v, s) ==
    IF s = <<>> THEN <<v>>
    ELSE IF v <= Head(s) THEN <<v>> \o s
    ELSE <<Head(s)>> \o Insert(v, Tail(s))

RECURSIVE SortedVals(_)
SortedVals(s) == IF s = <<>> THEN <<>> ELSE Insert(Head(s), SortedVals(Tail(s)))

\* np.quantile(vals, q=ENTROPY_QUANTILE), times QDen: linear interpolation
\* between the order statistics around position q * (n - 1).
QuantileScaled(vals) ==
    LET n == Len(vals)
        s == SortedVals(vals)
        h == QNum * (n - 1)
        lo == h \div QDen
        g == h % QDen
    IN IF g = 0 THEN QDen * s[lo + 1]
       ELSE QDen * s[lo + 1] + g * (s[lo + 2] - s[lo + 1])

\* Line 277: the rows of one cell type, in the order of adata.obs.
CelltypeDf(firstround, celltype) ==
    SelectSeq([i \in DOMAIN firstround |-> i], LAMBDA c : firstround[c] = celltype)

EntropyOf(entropy, cells) == [i \in DOMAIN cells |-> entropy[cells[i]]]

\* The comparison of line 280 made strict.
CandidatesStrict(entropy, celltype_df, cutoff) ==
    SelectSeq(celltype_df, LAMBDA c : QDen * entropy[c] < cutoff)

\* Line 280: the cells with entropy <= entropy_cutoff (cutoff is scaled by QDen).
Candidates(entropy, celltype_df, cutoff) ==
    SelectSeq(celltype_df, LAMBDA c : QDen * entropy[c] <= cutoff)

\* The count of line 281 rounded down.
NumCellsFloor(size) == (QNum * size) \div QDen

\* Line 281: math.ceil(ENTROPY_QUANTILE * size).
NumCells(size) == (QNum * size + QDen - 1) \div QDen

\* ---- SpecPartition -------------------------------------------------------
\* Line 28 of _utils.py seeds the generator when the module is imported.
InitPartition ==
    /\ pc = "select"
    /\ err = "none" /\ log = "none"
    /\ n_obs \in 1..MaxCells
    /\ obs_firstround \in [1..n_obs -> ClassLabels]
    /\ obs_entropy \in [1..n_obs -> 0..MaxEntropy]
    /\ obs_status = [c \in 1..n_obs |-> "nan"]
    /\ obs_pred = obs_firstround
    /\ y_pred = <<>>
    /\ predict_type = "tworound_predict"
    /\ todo = {} /\ sel_low = <<>> /\ calls = 0 /\ prev_status = <<>>
    /\ rng = RngSeed(RANDOM_SEED)
    /\ AlignDefault /\ EncDefault /\ RoundDefault

\* Lines 275-276: the empty list and the set the loop iterates over.
EnterSelect ==
    /\ pc = "select"
    /\ sel_low' = <<>>
    /\ todo' = Range(obs_firstround)
    /\ pc' = "select_loop"
    /\ UNCHANGED <<err, log, rng, calls, prev_status>>
    /\ UNCHANGED <<alignVars, encVars, obsVars, roundVars>>

\* Lines 277-286, the loop body for one cell type with the generator in
\* state s: the cells selected and the state the generator is left in.
LoopBody(firstround, entropy, celltype, s) ==
    LET celltype_df == CelltypeDf(firstround, celltype)
        entropy_cutoff == QuantileScaled(EntropyOf(entropy, celltype_df))
        cells == Candidates(entropy, celltype_df, entropy_cutoff)
        num_cells == NumCells(Len(celltype_df))
    IN IF Len(cells) > num_cells
       THEN Sample(cells, num_cells, SeedBeforeSample(s))
       ELSE [sel |-> cells, rng |-> s]

\* Lines 276-287, one iteration; a set is iterated in an order the program
\* does not fix.
VisitClass ==
    /\ pc = "select_loop"
    /\ \E celltype \in todo :
        LET selected_cells == LoopBody(obs_firstround, obs_entropy, celltype, rng) IN
            /\ sel_low' = sel_low \o selected_cells.sel
            /\ rng' = selected_cells.rng
            /\ todo' = todo \ {celltype}
    /\ UNCHANGED <<pc, err, log, calls, prev_status>>
    /\ UNCHANGED <<alignVars, encVars, obsVars, roundVars>>

\* Lines 288-291, after the loop.
MarkStatus ==
    /\ pc = "select_loop"
    /\ todo = {}
    /\ LET high == Cells \ Range(sel_low)
           marked_low == [c \in Cells |-> IF c \in Range(sel_low) THEN "low" ELSE obs_status[c]]
       IN obs_status' = [c \in Cells |-> IF c \in high THEN "high" ELSE marked_low[c]]
    /\ calls' = calls + 1
    /\ pc' = "selected"
    /\ UNCHANGED <<err, log, todo, sel_low, rng, prev_status>>
    /\ UNCHANGED <<alignVars, encVars, roundVars>>
    /\ UNCHANGED <<n_obs, y_pred, obs_firstround, obs_entropy, obs_pred, predict_type>>

\* The function called again in the same process on the same cell records.
CallAgain ==
    /\ pc = "selected"
    /\ calls < MaxCalls
    /\ prev_status' = obs_status
    /\ pc' = "select"
    /\ UNCHANGED <<err, log, todo, sel_low, rng, calls>>
    /\ UNCHANGED <<alignVars, encVars, obsVars, roundVars>>

NextPartition == EnterSelect \/ VisitClass \/ MarkStatus \/ CallAgain

SpecPartition == InitPartition /\ [][NextPartition]_vars

(***************************************************************************)
(* predict.py lines 68-90: first round, tiers, second-round set-up.        *)
(***************************************************************************)
\* The encoder mapping of a trained model with two classes.
TrainedEncoders == (0 :> "T-cell") @@ (1 :> "B-cell")

\* A softmax row, as far as the program reads it: its argmax and the level
\* of its Shannon entropy.
ProbRows == [argmax : DOMAIN TrainedEncoders, entropy : 0..MaxEntropy]

ExplicitErrors == {"SystemExit"}

\* ---- SpecRound -----------------------------------------------------------
\* _process_adata (line 123 of _utils.py) exits on fewer than 3 cells.
InitRound ==
    /\ pc = "first_round"
    /\ err = "none" /\ log = "none"
    /\ n_obs \in 3..MaxCells
    /\ y_pred \in [1..n_obs -> ProbRows]
    /\ predict_type \in {"direct_predict", "tworound_predict"}
    /\ obs_firstround = [c \in 1..n_obs |-> "nan"]
    /\ obs_entropy = [c \in 1..n_obs |-> 0]
    /\ obs_status = [c \in 1..n_obs |-> "nan"]
    /\ obs_pred = [c \in 1..n_obs |-> "nan"]
    /\ files_exist = TRUE /\ encoder_file = <<>> /\ line_no = 0
    /\ encoders = TrainedEncoders /\ enc_keys = <<0, 1>>
    /\ derived = {} /\ onehot_idx = {}
    /\ todo = {} /\ sel_low = <<>> /\ calls = 0 /\ prev_status = <<>>
    /\ rng = RngSeed(RANDOM_SEED)
    /\ AlignDefault /\ RoundDefault

\* _prob_to_label, lines 226-227, for every row.
PredCelltypes(rows, enc) == [c \in DOMAIN rows |-> enc[rows[c].argmax]]

\* Lines 68-71.
FirstRoundPredict ==
    /\ pc = "first_round"
    /\ obs_pred' = PredCelltypes(y_pred, encoders)
    /\ pc' = "branch"
    /\ UNCHANGED <<err, log, alignVars, encVars, selVars, roundVars>>
    /\ UNCHANGED <<n_obs, y_pred, obs_firstround, obs_entropy, obs_status, predict_type>>

\* Lines 73-74: PredCelltype_COLUMN is no name of predict.py (the module
\* imports _utils only), so the assignment raises NameError.
DirectPredict ==
    /\ pc = "branch"
    /\ predict_type = "direct_predict"
    /\ pc' = "error"
    /\ err' = "NameError"
    /\ UNCHANGED <<log, alignVars, encVars, obsVars, selVars, roundVars>>

\* Lines 76-80: the first-round column and the entropy column.
TwoRoundScore ==
    /\ pc = "branch"
    /\ predict_type = "tworound_predict"
    /\ obs_firstround' = PredCelltypes(y_pred, encoders)
    /\ obs_entropy' = [c \in Cells |-> y_pred[c].entropy]
    /\ pc' = "select"
    /\ UNCHANGED <<err, log, alignVars, encVars, selVars, roundVars>>
    /\ UNCHANGED <<n_obs, y_pred, obs_status, obs_pred, predict_type>>

\* The cells with entropy_status = tier, in the order of obs_names.
CellsWithStatus(status, tier) ==
    SelectSeq([i \in DOMAIN status |-> i], LAMBDA c : status[c] = tier)

\* Lines 84-89.
SplitTiers ==
    /\ pc = "selected"
    /\ low_entropy_cells' = CellsWithStatus(obs_status, "low")
    /\ high_entropy_cells' = CellsWithStatus(obs_status, "high")
    /\ pc' = "onehot"
    /\ UNCHANGED <<err, log, alignVars, encVars, obsVars, selVars>>
    /\ UNCHANGED <<distill_state, teacher_fit, student_fit, scored, output>>

\* Line 90: _label_to_onehot(labels, encoders) is called with one argument,
\* so the call raises TypeError before the function body runs.
CallLabelToOnehot ==
    /\ pc = "onehot"
    /\ pc' = "error"
    /\ err' = "TypeError"
    /\ UNCHANGED <<log, alignVars, encVars, obsVars, selVars, roundVars>>

NextRound ==
    \/ FirstRoundPredict
    \/ DirectPredict
    \/ TwoRoundScore
    \/ EnterSelect
    \/ VisitClass
    \/ MarkStatus
    \/ SplitTiers
    \/ CallLabelToOnehot

SpecRound == InitRound /\ [][NextRound]_vars

(***************************************************************************)
(* predict.py lines 94-109: teacher, student, distiller, output.  No run   *)
(* enters this block, line 90 raising before it; it is modelled from the   *)
(* state line 90 would leave had the call been well-formed.                *)
(***************************************************************************)
\* _select_confident_cells as a whole: the column entropy_status it leaves.
SelectedStatus(firstround, entropy) ==
    LET low == UNION {Range(LoopBody(firstround, entropy, ct, 0).sel) : ct \in Range(firstround)}
    IN [c \in DOMAIN firstround |-> IF c \in low THEN "low" ELSE "high"]

\* ---- SpecDistill ---------------------------------------------------------
InitDistill ==
    /\ pc = "teacher"
    /\ err = "none" /\ log = "none"
    /\ n_obs \in 3..MaxCells
    /\ y_pred \in [1..n_obs -> ProbRows]
    /\ predict_type = "tworound_predict"
    /\ obs_firstround = PredCelltypes(y_pred, TrainedEncoders)
    /\ obs_pred = PredCelltypes(y_pred, TrainedEncoders)
    /\ obs_entropy = [c \in 1..n_obs |-> y_pred[c].entropy]
    /\ obs_status = SelectedStatus(obs_firstround, obs_entropy)
    /\ files_exist = TRUE /\ encoder_file = <<>> /\ line_no = 0
    /\ encoders = TrainedEncoders /\ enc_keys = <<0, 1>>
    /\ derived = {} /\ onehot_idx = {}
    /\ todo = {} /\ sel_low = <<>> /\ calls = 1 /\ prev_status = <<>>
    /\ rng \in 0..(RngMod - 1)
    /\ low_entropy_cells = CellsWithStatus(obs_status, "low")
    /\ high_entropy_cells = CellsWithStatus(obs_status, "high")
    /\ distill_state = "Idle" /\ teacher_fit = {} /\ student_fit = {}
    /\ scored = EmptyMap /\ output = <<>>
    /\ AlignDefault

\* Lines 94-97: the teacher is fitted on x_tgt_train, the low-tier cells.
TrainTeacher ==
    /\ pc = "teacher"
    /\ teacher_fit' = Range(low_entropy_cells)
    /\ distill_state' = "TeacherTrained"
    /\ pc' = "student"
    /\ UNCHANGED <<err, log, alignVars, encVars, obsVars, selVars>>
    /\ UNCHANGED <<low_entropy_cells, high_entropy_cells, student_fit, scored, output>>

\* Lines 99-100.
InitStudent ==
    /\ pc = "student"
    /\ distill_state' = "StudentInitialized"
    /\ pc' = "distill"
    /\ UNCHANGED <<err, log, alignVars, encVars, obsVars, selVars>>
    /\ UNCHANGED <<low_entropy_cells, high_entropy_cells, teacher_fit, student_fit, scored, output>>

\* Lines 102-104 and _run_distiller (_utils.py 293-308): the student is
\* trained on x_tgt_train against the teacher.
RunDistiller ==
    /\ pc = "distill"
    /\ student_fit' = Range(low_entropy_cells)
    /\ distill_state' = "Distilled"
    /\ pc' = "score"
    /\ UNCHANGED <<err, log, alignVars, encVars, obsVars, selVars>>
    /\ UNCHANGED <<low_entropy_cells, high_entropy_cells, teacher_fit, scored, output>>

\* Lines 105-108: the student scores x_tgt_test, the rows of the high-tier
\* cells in their order; its top class per row is whatever the trained
\* network gives, and the labels are written to the rows of those cells.
ScoreStudent ==
    /\ pc = "score"
    /\ \E top \in [1..Len(high_entropy_cells) -> DOMAIN encoders] :
        LET pred_celltypes == [i \in DOMAIN top |-> encoders[top[i]]] IN
            /\ scored' = [c \in Range(high_entropy_cells) |->
                            pred_celltypes[CHOOSE i \in DOMAIN top : high_entropy_cells[i] = c]]
            /\ obs_pred' = [c \in Cells |->
                            IF c \in Range(high_entropy_cells)
                            THEN pred_celltypes[CHOOSE i \in DOMAIN top : high_entropy_cells[i] = c]
                            ELSE obs_pred[c]]
    /\ distill_state' = "Scored"
    /\ pc' = "write"
    /\ UNCHANGED <<err, log, alignVars, encVars, selVars>>
    /\ UNCHANGED <<n_obs, y_pred, obs_firstround, obs_entropy, obs_status, predict_type>>
    /\ UNCHANGED <<low_entropy_cells, high_entropy_cells, teacher_fit, student_fit, output>>

\* Line 109: test_adata.obs written as celltypes.csv, one row per cell.
WriteOutput ==
    /\ pc = "write"
    /\ output' = [c \in Cells |->
                    [firstround |-> obs_firstround[c], entropy |-> obs_entropy[c],
                     entropy_status |-> obs_status[c], pred_celltype |-> obs_pred[c]]]
    /\ pc' = "done"
    /\ UNCHANGED <<err, log, alignVars, encVars, obsVars, selVars>>
    /\ UNCHANGED <<low_entropy_cells, high_entropy_cells, distill_state, teacher_fit,
                   student_fit, scored>>

NextDistill == TrainTeacher \/ InitStudent \/ RunDistiller \/ ScoreStudent \/ WriteOutput

SpecDistill == InitDistill /\ [][NextDistill]_vars

(***************************************************************************)
(* Claims about the Feature Aligner.                                       *)
(***************************************************************************)
\* Position (0-based) of the first target feature equal to feature, or the
\* not-found sentinel.
FirstPos(feature, names) ==
    IF \E j \in DOMAIN names : names[j] = feature
    THEN (CHOOSE j \in DOMAIN names :
              names[j] = feature /\ \A k \in 1..(j - 1) : names[k] # feature) - 1
    ELSE NotFound

C5_LowCoverageWarnsAndContinues ==
    pc \notin {"align", "coverage"} =>
        /\ pc = "project"
        /\ (log = "warning") <=> (CovDen * find_cnt < CovNum * Len(features))

\* C4: the re-projected matrix has N columns in reference order; a matched
\* feature's column holds its target column, and the column of a sentinel
\* entry holds no actual target column.
C4_SentinelNeverATargetColumn ==
    pc = "scale" =>
        /\ Len(proj_src) = Len(features)
        /\ \A i \in DOMAIN proj_src :
            IF feature_idx[i] # NotFound
            THEN proj_src[i] = feature_idx[i]
            ELSE proj_src[i] \notin 0..(Len(var_names) - 1)

(***************************************************************************)
(* Claims about the Entropy Partitioner.                                   *)
(***************************************************************************)
ClassCells(ct) == {c \in Cells : obs_firstround[c] = ct}
LowSet == {c \in Cells : obs_status[c] = "low"}
HighSet == {c \in Cells : obs_status[c] = "high"}
Min(a, b) == IF a <= b THEN a ELSE b

\* The k-th smallest entropy among the cells of S (k from 1).
KthSmallest(S, k) ==
    CHOOSE v \in {obs_entropy[c] : c \in S} :
        /\ Cardinality({c \in S : obs_entropy[c] < v}) < k
        /\ Cardinality({c \in S : obs_entropy[c] <= v}) >= k

\* QDen times the q-quantile of entropy within S.
ClaimQuantile(S) ==
    LET h == QNum * (Cardinality(S) - 1)
        a == KthSmallest(S, (h \div QDen) + 1)
    IN IF h % QDen = 0 THEN QDen * a
       ELSE QDen * a + (h % QDen) * (KthSmallest(S, (h \div QDen) + 2) - a)

ClaimCandidates(ct) ==
    Cardinality({c \in ClassCells(ct) : QDen * obs_entropy[c] <= ClaimQuantile(ClassCells(ct))})

\* ceil(q * n): the least m with m >= q * n.
CeilQ(n) == CHOOSE m \in 0..n : QDen * m >= QNum * n /\ QDen * (m - 1) < QNum * n

Subsampled(ct) == ClaimCandidates(ct) > CeilQ(Cardinality(ClassCells(ct)))

C7_SameTiersOnRerun ==
    (pc = "selected" /\ calls >= 2) => obs_status = prev_status

\* Two runs done, both classes subsampled in each.
C7_Witness ==
    /\ pc = "selected"
    /\ calls = 2
    /\ Cardinality(Range(obs_firstround)) = 2
    /\ \A ct \in Range(obs_firstround) : Subsampled(ct)

FileIsBijection ==
    \A i, j \in DOMAIN encoder_file :
        (encoder_file[i][1] = encoder_file[j][1] \/ encoder_file[i][2] = encoder_file[j][2])
            => i = j

\* C8: an encoder mapping file that repeats an index or a label is rejected:
\* the run never has it loaded, derives no label from it, and the error it
\* ends in is the explicit exit with a message.
C8_DuplicateMappingRejected ==
    ~FileIsBijection =>
        /\ pc # "loaded"
        /\ derived = {}
        /\ (pc = "error" => err \in ExplicitErrors)

(***************************************************************************)
(* Claims about the second round.                                          *)
(***************************************************************************)
RunEnded == pc \in {"error", "done"}

LowTierDeficient ==
    \/ LowSet = {}
    \/ Cardinality({obs_firstround[c] : c \in LowSet}) < Cardinality(DOMAIN encoders)

\* C2: a tworound_predict run that has ended (otherwise than by an explicit
\* exit) has written one row per cell, with the first-round label as the
\* final label of a low-tier cell and the student's label for that cell as
\* the final label of a high-tier cell.
C2_OneFinalLabelPerCell ==
    (RunEnded /\ predict_type = "tworound_predict" /\ err \notin ExplicitErrors) =>
        /\ DOMAIN output = Cells
        /\ \A c \in Cells :
            /\ obs_status[c] = "low" => output[c].pred_celltype = obs_firstround[c]
            /\ obs_status[c] = "high" =>
                (c \in DOMAIN scored /\ output[c].pred_celltype = scored[c])

\* C6: a run whose low-tier set is empty or covers fewer classes than the
\* encoder mapping trains nothing, scores nothing, writes nothing, and ends
\* in an explicit error.
C6_DeficientLowTierIsExplicitError ==
    (calls >= 1 /\ LowTierDeficient) =>
        /\ distill_state = "Idle"
        /\ scored = EmptyMap
        /\ output = <<>>
        /\ (RunEnded => (pc = "error" /\ err \in ExplicitErrors))

====
